---- MODULE Spec2Model ----
(***************************************************************************)
(* The replacement-fund ledger of the helpdesk application:                *)
(* ReplacementFundManager (replacement_fund_manager.py) working through    *)
(* DatabaseManager.get_session (database.py) on the tables                 *)
(* replacement_fund and replacement_fund_movements (models.py).            *)
(*                                                                         *)
(* Two OS processes (the Telegram bot and the web panel) share one store.  *)
(* A call is split at the points where it talks to the store or reads the  *)
(* clock: the SELECT, the in-memory check and update, session.flush()      *)
(* (the UPDATE, which opens the write transaction), the construction of    *)
(* the movement row, and session.commit() (the INSERT and the COMMIT).     *)
(***************************************************************************)
EXTENDS Integers, Sequences, FiniteSets, TLC

VARIABLES
    fund,       \* committed rows of replacement_fund, by id
    movements,  \* committed rows of replacement_fund_movements, in id order
    writer,     \* the process holding the store's write transaction, or NoWriter
    clock,      \* what datetime.now() returns
    pc,         \* each process's position inside its call
    req,        \* each process's current (or last) call and its arguments
    sess,       \* each process's SQLAlchemy session: loaded row, pending rows
    ret,        \* each process's last result: "none", "True" or "False"
    why,        \* history: the exit path the last call took
    pre,        \* history: the committed store as it was when the call began
    fund0,      \* history: the counters the fund items started with
    nsucc,      \* history: per fund item, the calls that returned True
    prior,      \* history: for each movement, the item's counters before it
    answer      \* what the last get_fund_items / get_movements call returned

vars == <<fund, movements, writer, clock, pc, req, sess, ret, why, pre, fund0,
          nsucc, prior, answer>>

----------------------------------------------------------------------------
(* Bounds of the model. *)

MaxInit == 1        \* initial quantity_available / quantity_reserved are 0..MaxInit
MaxMovements == 2   \* calls are admitted while the log is shorter than this
MaxClock == 1       \* datetime.now() ranges over 0..MaxClock

(* Program constants. *)

max_retries == 3

----------------------------------------------------------------------------
(* Values. *)

Procs == {"bot", "web"}
NoWriter == "none"

None == <<>>
Some(v) == <<v>>
IsNone(o) == o = <<>>
Get(o) == o[1]

FundItemIds == {1, 2}        \* the rows of replacement_fund
MissingId == 3               \* an id no row has
\* The ticket workflow issues and reclaims stock for a ticket; the admin
\* panel writes off and receives without one.
TicketOf(type) == IF type \in {"ISSUE", "RETURN"} THEN Some(55) ELSE None
UserId == 7

OperationTypes == {"ISSUE", "RETURN", "WRITE_OFF", "RECEIVE"}
PositiveQuantities == {1, 2}          \* quantities section 4.1 allows
NonPositiveQuantities == {0 - 1, 0}   \* quantities it says are rejected
CountedQuantities == {0, 2}           \* physical counts section 4.2 allows

Columns == {"quantity_available", "quantity_reserved", "quantity_actual",
            "last_inventory_date", "updated_at"}

ReplacementFund(a, r) ==
    [quantity_available |-> a, quantity_reserved |-> r, quantity_actual |-> None,
     last_inventory_date |-> None, updated_at |-> 0]

ReplacementFundMovement(i, type, ticket, q, before, after, user, now) ==
    [fund_item_id |-> i, movement_type |-> type, ticket_id |-> ticket,
     quantity |-> q, quantity_before |-> before, quantity_after |-> after,
     user_id |-> user, created_at |-> now]

NoRequest ==
    [fund_item_id |-> 0, ticket_id |-> None, quantity |-> 0, fn |-> "none",
     operation_type |-> "none", correct_accounting |-> FALSE]

\* What pre holds while no call is under way.
NoSnapshot == [fund |-> <<>>, nmov |-> 0]

\* A fresh session: nothing loaded, nothing pending, no retry made, open.
SessionLocal ==
    [loaded |-> None, item |-> None, movement |-> None, retries |-> 0,
     slept |-> 0, rolled_back |-> FALSE, closed |-> FALSE, raised |-> "none"]

\* What answer holds before any query: items are the dicts get_fund_items
\* returned, rows the list get_movements returned, error what was raised
\* inside the query.
NoAnswer == [fn |-> "none", items |-> {}, rows |-> <<>>, error |-> "none"]

----------------------------------------------------------------------------
(* perform_operation's branch on operation_type: the precondition checks   *)
(* and the counter updates, on the row the session loaded.                 *)

Rejected(row, reason) == [why |-> reason, row |-> row, ok |-> FALSE]

Accepted(row, da, dr) ==
    [why |-> "ok",
     row |-> [row EXCEPT !.quantity_available = row.quantity_available + da,
                         !.quantity_reserved = row.quantity_reserved + dr],
     ok |-> TRUE]

\* Variants of OperationOutcome with one slip each.
OperationOutcomeUncheckedReturn(row, operation_type, quantity) ==
    CASE operation_type = "ISSUE" ->
           IF row.quantity_available < quantity
           THEN Rejected(row, "precondition")
           ELSE Accepted(row, 0 - quantity, quantity)
      [] operation_type = "RETURN" -> Accepted(row, quantity, 0 - quantity)
      [] operation_type = "WRITE_OFF" ->
           IF row.quantity_available < quantity
           THEN Rejected(row, "precondition")
           ELSE Accepted(row, 0 - quantity, 0)
      [] operation_type = "RECEIVE" -> Accepted(row, quantity, 0)
      [] OTHER -> Rejected(row, "unknown_type")

OperationOutcomeWriteOffOnReserved(row, operation_type, quantity) ==
    CASE operation_type = "ISSUE" ->
           IF row.quantity_available < quantity
           THEN Rejected(row, "precondition")
           ELSE Accepted(row, 0 - quantity, quantity)
      [] operation_type = "RETURN" ->
           IF row.quantity_reserved < quantity
           THEN Rejected(row, "precondition")
           ELSE Accepted(row, quantity, 0 - quantity)
      [] operation_type = "WRITE_OFF" ->
           IF row.quantity_reserved < quantity
           THEN Rejected(row, "precondition")
           ELSE Accepted(row, 0 - quantity, 0)
      [] operation_type = "RECEIVE" -> Accepted(row, quantity, 0)
      [] OTHER -> Rejected(row, "unknown_type")

OperationOutcomeStrictIssue(row, operation_type, quantity) ==
    CASE operation_type = "ISSUE" ->
           IF row.quantity_available <= quantity
           THEN Rejected(row, "precondition")
           ELSE Accepted(row, 0 - quantity, quantity)
      [] operation_type = "RETURN" ->
           IF row.quantity_reserved < quantity
           THEN Rejected(row, "precondition")
           ELSE Accepted(row, quantity, 0 - quantity)
      [] operation_type = "WRITE_OFF" ->
           IF row.quantity_available < quantity
           THEN Rejected(row, "precondition")
           ELSE Accepted(row, 0 - quantity, 0)
      [] operation_type = "RECEIVE" -> Accepted(row, quantity, 0)
      [] OTHER -> Rejected(row, "unknown_type")

OperationOutcomeReturnKeepsAvailable(row, operation_type, quantity) ==
    CASE operation_type = "ISSUE" ->
           IF row.quantity_available < quantity
           THEN Rejected(row, "precondition")
           ELSE Accepted(row, 0 - quantity, quantity)
      [] operation_type = "RETURN" ->
           IF row.quantity_reserved < quantity
           THEN Rejected(row, "precondition")
           ELSE Accepted(row, 0, 0 - quantity)
      [] operation_type = "WRITE_OFF" ->
           IF row.quantity_available < quantity
           THEN Rejected(row, "precondition")
           ELSE Accepted(row, 0 - quantity, 0)
      [] operation_type = "RECEIVE" -> Accepted(row, quantity, 0)
      [] OTHER -> Rejected(row, "unknown_type")

OperationOutcomeWriteOffReleasesReserved(row, operation_type, quantity) ==
    CASE operation_type = "ISSUE" ->
           IF row.quantity_available < quantity
           THEN Rejected(row, "precondition")
           ELSE Accepted(row, 0 - quantity, quantity)
      [] operation_type = "RETURN" ->
           IF row.quantity_reserved < quantity
           THEN Rejected(row, "precondition")
           ELSE Accepted(row, quantity, 0 - quantity)
      [] operation_type = "WRITE_OFF" ->
           IF row.quantity_available < quantity
           THEN Rejected(row, "precondition")
           ELSE Accepted(row, 0 - quantity, 0 - quantity)
      [] operation_type = "RECEIVE" -> Accepted(row, quantity, 0)
      [] OTHER -> Rejected(row, "unknown_type")

OperationOutcomeReceiveNeedsStock(row, operation_type, quantity) ==
    CASE operation_type = "ISSUE" ->
           IF row.quantity_available < quantity
           THEN Rejected(row, "precondition")
           ELSE Accepted(row, 0 - quantity, quantity)
      [] operation_type = "RETURN" ->
           IF row.quantity_reserved < quantity
           THEN Rejected(row, "precondition")
           ELSE Accepted(row, quantity, 0 - quantity)
      [] operation_type = "WRITE_OFF" ->
           IF row.quantity_available < quantity
           THEN Rejected(row, "precondition")
           ELSE Accepted(row, 0 - quantity, 0)
      [] operation_type = "RECEIVE" ->
           IF row.quantity_available < quantity
           THEN Rejected(row, "precondition")
           ELSE Accepted(row, quantity, 0)
      [] OTHER -> Rejected(row, "unknown_type")

OperationOutcomeUnknownTypeReceives(row, operation_type, quantity) ==
    CASE operation_type = "ISSUE" ->
           IF row.quantity_available < quantity
           THEN Rejected(row, "precondition")
           ELSE Accepted(row, 0 - quantity, quantity)
      [] operation_type = "RETURN" ->
           IF row.quantity_reserved < quantity
           THEN Rejected(row, "precondition")
           ELSE Accepted(row, quantity, 0 - quantity)
      [] operation_type = "WRITE_OFF" ->
           IF row.quantity_available < quantity
           THEN Rejected(row, "precondition")
           ELSE Accepted(row, 0 - quantity, 0)
      [] OTHER -> Accepted(row, quantity, 0)

OperationOutcome(row, operation_type, quantity) ==
    CASE operation_type = "ISSUE" ->
           IF row.quantity_available < quantity
           THEN Rejected(row, "precondition")
           ELSE Accepted(row, 0 - quantity, quantity)
      [] operation_type = "RETURN" ->
           IF row.quantity_reserved < quantity
           THEN Rejected(row, "precondition")
           ELSE Accepted(row, quantity, 0 - quantity)
      [] operation_type = "WRITE_OFF" ->
           IF row.quantity_available < quantity
           THEN Rejected(row, "precondition")
           ELSE Accepted(row, 0 - quantity, 0)
      [] operation_type = "RECEIVE" -> Accepted(row, quantity, 0)
      [] OTHER -> Rejected(row, "unknown_type")

(* perform_inventory's update of the loaded row. *)

\* A variant that corrects the book quantity whatever the flag says.
InventoryOutcomeAlwaysCorrects(row, actual_quantity, correct_accounting, now) ==
    [row EXCEPT
        !.quantity_actual = Some(actual_quantity),
        !.last_inventory_date = Some(now),
        !.quantity_available = actual_quantity]

\* A variant whose correction also takes the count for the whole stock and
\* clears quantity_reserved.
InventoryOutcomeClearsReserved(row, actual_quantity, correct_accounting, now) ==
    [row EXCEPT
        !.quantity_actual = Some(actual_quantity),
        !.last_inventory_date = Some(now),
        !.quantity_available =
            IF correct_accounting THEN actual_quantity ELSE row.quantity_available,
        !.quantity_reserved =
            IF correct_accounting THEN 0 ELSE row.quantity_reserved]

InventoryOutcome(row, actual_quantity, correct_accounting, now) ==
    [row EXCEPT
        !.quantity_actual = Some(actual_quantity),
        !.last_inventory_date = Some(now),
        !.quantity_available =
            IF correct_accounting THEN actual_quantity ELSE row.quantity_available]

----------------------------------------------------------------------------
(* get_fund_items and _fund_item_to_dict: the read side.  The columns the  *)
(* ledger never writes (item_type, company_id) are fixed per row.          *)

item_type(i) == IF i = 1 THEN "CARTRIDGE" ELSE "PRINTER"
company_id(i) == IF i = 1 THEN None ELSE Some(1)

\* A variant that subtracts the other way round.
fund_item_to_dict_reversed(i, item) ==
    [quantity_available |-> item.quantity_available,
     quantity_reserved |-> item.quantity_reserved,
     quantity_actual |-> item.quantity_actual,
     id |-> i,
     discrepancy |->
        IF IsNone(item.quantity_actual) THEN None
        ELSE Some(item.quantity_available - Get(item.quantity_actual))]

fund_item_to_dict(i, item) ==
    [quantity_available |-> item.quantity_available,
     quantity_reserved |-> item.quantity_reserved,
     quantity_actual |-> item.quantity_actual,
     id |-> i,
     discrepancy |->
        IF IsNone(item.quantity_actual) THEN None
        ELSE Some(Get(item.quantity_actual) - item.quantity_available)]

\* query.filter(company_id == ... / IS NULL), then `if item_type:`.
QueryAll(company, type) ==
    {i \in FundItemIds :
        /\ company_id(i) = company
        /\ type # "" => item_type(i) = type}

\* Variants of the discrepancy filter: one that only asks whether the item
\* was ever counted, one that reads a missing count as zero.
HasDiscrepancyAnyCounted(item) == ~IsNone(item.quantity_actual)

HasDiscrepancyNoneIsZero(item) ==
    IF IsNone(item.quantity_actual) THEN item.quantity_available # 0
    ELSE Get(item.quantity_actual) # item.quantity_available

HasDiscrepancy(item) ==
    /\ ~IsNone(item.quantity_actual)
    /\ Get(item.quantity_actual) # item.quantity_available

\* The list returned, as the set of its dicts (the query has no ORDER BY).
get_fund_items(company, type, show_discrepancies_only) ==
    {fund_item_to_dict(i, fund[i]) :
        i \in {j \in QueryAll(company, type) :
                 show_discrepancies_only => HasDiscrepancy(fund[j])}}

----------------------------------------------------------------------------

(* get_movements: the optional filters, ORDER BY created_at DESC, LIMIT.   *)
(* The code's `if fund_item_id:` and `if movement_type:` take 0 and "" for *)
(* "not given", as they take None.                                         *)

\* A row of the log as the dict the method returns; the id of a movement is
\* its place in the log.
movement_to_dict(k, m) ==
    [fund_item_id |-> m.fund_item_id, movement_type |-> m.movement_type,
     ticket_id |-> m.ticket_id, quantity |-> m.quantity,
     quantity_before |-> m.quantity_before,
     quantity_after |-> m.quantity_after, user_id |-> m.user_id,
     created_at |-> m.created_at, id |-> k]

\* The ids of the rows that pass the filters.
Filtered(fund_item_id, movement_type) ==
    {k \in 1..Len(movements) :
        /\ fund_item_id # 0 => movements[k].fund_item_id = fund_item_id
        /\ movement_type # "" => movements[k].movement_type = movement_type}

\* Variants of the ordering: oldest first, and insertion order.
OrderByCreatedAtAsc(ids) ==
    {s \in [1..Cardinality(ids) -> ids] :
        /\ \A a, b \in DOMAIN s : a # b => s[a] # s[b]
        /\ \A a, b \in DOMAIN s :
              a < b => movements[s[a]].created_at <= movements[s[b]].created_at}

\* The orders ORDER BY created_at DESC can deliver the rows in: rows of
\* equal created_at come in an order the statement leaves open.
OrderByCreatedAtDesc(ids) ==
    {s \in [1..Cardinality(ids) -> ids] :
        /\ \A a, b \in DOMAIN s : a # b => s[a] # s[b]
        /\ \A a, b \in DOMAIN s :
              a < b => movements[s[a]].created_at >= movements[s[b]].created_at}

Limit(s, limit) == SubSeq(s, 1, IF limit < Len(s) THEN limit ELSE Len(s))

\* The lists the call can return.
get_movements(fund_item_id, movement_type, limit) ==
    {[n \in DOMAIN Limit(s, limit) |-> movement_to_dict(s[n], movements[s[n]])] :
        s \in OrderByCreatedAtDesc(Filtered(fund_item_id, movement_type))}

----------------------------------------------------------------------------

(* The session's unit of work.  flush() writes the columns whose value     *)
(* differs from the loaded one, and only those; a row with no such column  *)
(* gets no UPDATE.                                                         *)

DirtyColumns(s) ==
    IF IsNone(s.loaded) THEN {}
    ELSE {c \in Columns : Get(s.item)[c] # Get(s.loaded)[c]}

\* Variants of UpdatedRow: an UPDATE that writes every column of the loaded
\* object, and one that adds the change of each counter to the committed
\* value.
UpdatedRowWholeRow(committed, s) ==
    IF IsNone(s.loaded) THEN committed ELSE Get(s.item)

UpdatedRowRelative(committed, s) ==
    [c \in Columns |->
        IF c \notin DirtyColumns(s) THEN committed[c]
        ELSE IF c \in {"quantity_available", "quantity_reserved"}
             THEN committed[c] + (Get(s.item)[c] - Get(s.loaded)[c])
             ELSE Get(s.item)[c]]

UpdatedRow(committed, s) ==
    [c \in Columns |->
        IF c \in DirtyColumns(s) THEN Get(s.item)[c] ELSE committed[c]]

(* get_session's except clauses, reached when the with-body raises:        *)
(* rollback; a locked/busy error counts a retry, sleeps and re-enters the  *)
(* loop, whose second yield makes contextlib raise RuntimeError into the   *)
(* caller; any other error is re-raised.  finally closes the session.      *)

\* A variant that takes every database error for a lock.
SessionAfterErrorAlwaysRetries(s, kind) ==
    IF s.retries + 1 < max_retries
    THEN [SessionLocal EXCEPT !.rolled_back = TRUE,
             !.retries = s.retries + 1, !.slept = s.slept + 1,
             !.closed = TRUE, !.raised = "RuntimeError"]
    ELSE [SessionLocal EXCEPT !.rolled_back = TRUE,
             !.retries = s.retries + 1, !.closed = TRUE,
             !.raised = "OperationalError"]

\* A variant without the finally clause: the session stays open after an
\* error.
SessionAfterErrorLeftOpen(s, kind) ==
    IF kind = "locked"
    THEN IF s.retries + 1 < max_retries
         THEN [SessionLocal EXCEPT !.rolled_back = TRUE,
                  !.retries = s.retries + 1, !.slept = s.slept + 1,
                  !.raised = "RuntimeError"]
         ELSE [SessionLocal EXCEPT !.rolled_back = TRUE,
                  !.retries = s.retries + 1, !.raised = "OperationalError"]
    ELSE [SessionLocal EXCEPT !.rolled_back = TRUE,
                              !.raised = "DatabaseError"]

SessionAfterError(s, kind) ==
    IF kind = "locked"
    THEN IF s.retries + 1 < max_retries
         THEN [SessionLocal EXCEPT !.rolled_back = TRUE,
                  !.retries = s.retries + 1, !.slept = s.slept + 1,
                  !.closed = TRUE, !.raised = "RuntimeError"]
         ELSE [SessionLocal EXCEPT !.rolled_back = TRUE,
                  !.retries = s.retries + 1, !.closed = TRUE,
                  !.raised = "OperationalError"]
    ELSE [SessionLocal EXCEPT !.rolled_back = TRUE, !.closed = TRUE,
                              !.raised = "DatabaseError"]

----------------------------------------------------------------------------
(* The state after construction. *)

InitStore ==
    /\ fund0 \in [FundItemIds -> [a : 0..MaxInit, r : 0..MaxInit]]
    /\ fund0[2] = [a |-> 1, r |-> 1]
    /\ fund = [i \in FundItemIds |-> ReplacementFund(fund0[i].a, fund0[i].r)]
    /\ movements = <<>>
    /\ writer = NoWriter
    /\ pc = [p \in Procs |-> "idle"]
    /\ req = [p \in Procs |-> NoRequest]
    /\ sess = [p \in Procs |-> SessionLocal]
    /\ ret = [p \in Procs |-> "none"]
    /\ why = [p \in Procs |-> "none"]
    /\ pre = [p \in Procs |-> NoSnapshot]
    /\ nsucc = [i \in FundItemIds |-> 0]
    /\ prior = <<>>
    /\ answer = NoAnswer

\* The clock starts at 0 and moves while the calls are made.
Init == InitStore /\ clock = 0

\* The calls all fall within one reading of the clock: every timestamp they
\* take is the same.
InitSameInstant == InitStore /\ clock = MaxClock

----------------------------------------------------------------------------
(* Calls. A call is admitted while the log has room for it. *)

InFlight == Cardinality({p \in Procs : pc[p] \notin {"idle", "done"}})

\* datetime.now(): the clock has stood still since it was last read, or
\* has moved on.
Now == {t \in {clock, clock + 1} : t <= MaxClock}

\* The call returns: the with-block is left, the session closed (which
\* expunges the rows it held).
Return(p, result, reason, s) ==
    /\ pc' = [pc EXCEPT ![p] = "done"]
    /\ ret' = [ret EXCEPT ![p] = result]
    /\ why' = [why EXCEPT ![p] = reason]
    /\ sess' = [sess EXCEPT ![p] = s]

SessionClosed == [SessionLocal EXCEPT !.closed = TRUE]

\* The loaded row after the in-memory part of call r, or the rejection.
OutcomeOf(r, row, now) ==
    IF r.fn = "perform_inventory"
    THEN [why |-> "ok",
          row |-> InventoryOutcome(row, r.quantity, r.correct_accounting, now),
          ok |-> TRUE]
    ELSE OperationOutcome(row, r.operation_type, r.quantity)

\* The call begins and runs to session.flush(): the SELECT of the row, then,
\* in memory, the check and the update of the loaded row (OutcomeOf) and
\* updated_at = datetime.now().  Nothing another process does can fall
\* between the SELECT and the in-memory steps and be seen by them, so they
\* are one step.
Body(p, r) ==
    /\ pc[p] = "idle"
    /\ Len(movements) + InFlight < MaxMovements
    /\ req' = [req EXCEPT ![p] = r]
    /\ pre' = [pre EXCEPT ![p] = [fund |-> fund, nmov |-> Len(movements)]]
    /\ IF r.fund_item_id \notin FundItemIds
       THEN /\ Return(p, "False", "not_found", SessionClosed)
            /\ UNCHANGED clock
       ELSE \E now \in Now :
              LET row == fund[r.fund_item_id]
                  out == OutcomeOf(r, row, now)
              IN IF out.ok
                 THEN /\ pc' = [pc EXCEPT ![p] = "flush"]
                      /\ sess' = [sess EXCEPT ![p] =
                             [SessionLocal EXCEPT !.loaded = Some(row),
                                 !.item = Some([out.row EXCEPT
                                                  !.updated_at = now])]]
                      /\ clock' = now
                      /\ UNCHANGED <<ret, why>>
                 ELSE /\ Return(p, "False", out.why, SessionClosed)
                      /\ UNCHANGED clock
    /\ UNCHANGED <<fund, movements, writer, fund0, nsucc, prior, answer>>

\* perform_operation(fund_item_id, operation_type, quantity, user_id,
\* ticket_id), up to session.flush().
PerformOperation(p, i, type, q, t) ==
    Body(p, [fund_item_id |-> i, ticket_id |-> t, quantity |-> q,
             fn |-> "perform_operation", operation_type |-> type,
             correct_accounting |-> FALSE])

\* perform_inventory(fund_item_id, actual_quantity, user_id,
\* correct_accounting), up to session.flush().
PerformInventory(p, i, actual, correct) ==
    Body(p, [fund_item_id |-> i, ticket_id |-> None, quantity |-> actual,
             fn |-> "perform_inventory", operation_type |-> "INVENTORY",
             correct_accounting |-> correct])

\* A variant of Flush on an autocommit connection: the UPDATE is committed
\* as it is flushed.
FlushAutocommit(p) ==
    /\ pc[p] = "flush"
    /\ writer = NoWriter
    /\ fund' = [fund EXCEPT ![req[p].fund_item_id] = UpdatedRow(@, sess[p])]
    /\ pc' = [pc EXCEPT ![p] = "add"]
    /\ UNCHANGED <<movements, writer, clock, req, sess, ret, why, pre, fund0,
                   nsucc, prior, answer>>

\* session.flush(): the UPDATE opens the write transaction, which one
\* connection at a time can hold; with no dirty column nothing is sent.
Flush(p) ==
    /\ pc[p] = "flush"
    /\ IF DirtyColumns(sess[p]) = {}
       THEN UNCHANGED writer
       ELSE /\ writer = NoWriter
            /\ writer' = p
    /\ pc' = [pc EXCEPT ![p] = "add"]
    /\ UNCHANGED <<fund, movements, clock, req, sess, ret, why, pre, fund0,
                   nsucc, prior, answer>>

\* A variant of StorageError whose caller swallows the exception and
\* reports success.
StorageErrorSwallowed(p, kind) ==
    /\ Return(p, "True", kind, SessionAfterError(sess[p], kind))
    /\ writer' = IF writer = p THEN NoWriter ELSE writer
    /\ UNCHANGED <<fund, movements, clock, req, pre, fund0, nsucc, prior, answer>>

\* A variant of StorageError whose caller catches database errors only:
\* what get_session raised travels on to the caller's caller.
StorageErrorPropagates(p, kind) ==
    /\ Return(p, "raised", kind, SessionAfterError(sess[p], kind))
    /\ writer' = IF writer = p THEN NoWriter ELSE writer
    /\ UNCHANGED <<fund, movements, clock, req, pre, fund0, nsucc, prior, answer>>

\* The statement raises: "locked" is the busy timeout running out while
\* another connection writes, "storage" any other database error.  The
\* caller's `except Exception` catches what get_session raises and returns
\* False.
StorageError(p, kind) ==
    /\ Return(p, "False", kind, SessionAfterError(sess[p], kind))
    /\ writer' = IF writer = p THEN NoWriter ELSE writer
    /\ UNCHANGED <<fund, movements, clock, req, pre, fund0, nsucc, prior, answer>>

\* The UPDATE waits for the write transaction until the busy timeout ends.
FlushError(p) ==
    /\ pc[p] = "flush"
    /\ DirtyColumns(sess[p]) # {}
    /\ StorageError(p, "locked")

\* A variant of MovementOf that records the count as quantity_after
\* whether or not the book quantity was corrected.
MovementOfAfterIsCount(r, loaded, now) ==
    IF r.fn = "perform_inventory"
    THEN ReplacementFundMovement(r.fund_item_id, "INVENTORY", None, r.quantity,
             Some(loaded.quantity_available), Some(r.quantity), UserId, now)
    ELSE ReplacementFundMovement(r.fund_item_id, r.operation_type, r.ticket_id,
             r.quantity, None, None, UserId, now)

\* The movement row of the call, as the code builds it.
MovementOf(r, loaded, now) ==
    IF r.fn = "perform_inventory"
    THEN ReplacementFundMovement(r.fund_item_id, "INVENTORY", None, r.quantity,
             Some(loaded.quantity_available),
             Some(IF r.correct_accounting THEN r.quantity
                  ELSE loaded.quantity_available),
             UserId, now)
    ELSE ReplacementFundMovement(r.fund_item_id, r.operation_type, r.ticket_id,
             r.quantity, None, None, UserId, now)

\* movement = ReplacementFundMovement(..., created_at=datetime.now());
\* session.add(movement)
AddMovement(p) ==
    /\ pc[p] = "add"
    /\ pc' = [pc EXCEPT ![p] = "commit"]
    /\ \E now \in Now :
        /\ clock' = now
        /\ sess' = [sess EXCEPT ![p].movement =
                       Some(MovementOf(req[p], Get(sess[p].loaded), now))]
    /\ UNCHANGED <<fund, movements, writer, req, ret, why, pre, fund0, nsucc, prior, answer>>

\* A variant of Commit in which a reconciliation overwrites the item's
\* previous INVENTORY movement, if it has one, instead of adding a row.
CommitRewritesLog(p) ==
    /\ pc[p] = "commit"
    /\ writer \in {p, NoWriter}
    /\ fund' = [fund EXCEPT ![req[p].fund_item_id] = UpdatedRow(@, sess[p])]
    /\ LET old == {k \in 1..Len(movements) :
                      /\ movements[k].movement_type = "INVENTORY"
                      /\ movements[k].fund_item_id = req[p].fund_item_id}
       IN IF req[p].fn = "perform_inventory" /\ old # {}
          THEN movements' = [movements EXCEPT
                   ![CHOOSE k \in old : TRUE] = Get(sess[p].movement)]
          ELSE movements' = Append(movements, Get(sess[p].movement))
    /\ writer' = NoWriter
    /\ nsucc' = [nsucc EXCEPT ![req[p].fund_item_id] = @ + 1]
    /\ prior' = Append(prior,
           [a |-> fund[req[p].fund_item_id].quantity_available,
            r |-> fund[req[p].fund_item_id].quantity_reserved])
    /\ Return(p, "True", "ok", SessionClosed)
    /\ UNCHANGED <<clock, req, pre, fund0, answer>>

\* A variant of Commit whose UPDATE has no WHERE clause: the changed columns
\* are written to every row.
CommitAllRows(p) ==
    /\ pc[p] = "commit"
    /\ writer \in {p, NoWriter}
    /\ fund' = [i \in FundItemIds |-> UpdatedRow(fund[i], sess[p])]
    /\ movements' = Append(movements, Get(sess[p].movement))
    /\ writer' = NoWriter
    /\ nsucc' = [nsucc EXCEPT ![req[p].fund_item_id] = @ + 1]
    /\ prior' = Append(prior,
           [a |-> fund[req[p].fund_item_id].quantity_available,
            r |-> fund[req[p].fund_item_id].quantity_reserved])
    /\ Return(p, "True", "ok", SessionClosed)
    /\ UNCHANGED <<clock, req, pre, fund0, answer>>

\* session.commit(): the INSERT of the movement, then COMMIT makes the
\* UPDATE and the INSERT visible together and ends the write transaction.
Commit(p) ==
    /\ pc[p] = "commit"
    /\ writer \in {p, NoWriter}
    /\ fund' = [fund EXCEPT ![req[p].fund_item_id] = UpdatedRow(@, sess[p])]
    /\ movements' = Append(movements, Get(sess[p].movement))
    /\ writer' = NoWriter
    /\ nsucc' = [nsucc EXCEPT ![req[p].fund_item_id] = @ + 1]
    /\ prior' = Append(prior,
           [a |-> fund[req[p].fund_item_id].quantity_available,
            r |-> fund[req[p].fund_item_id].quantity_reserved])
    /\ Return(p, "True", "ok", SessionClosed)
    /\ UNCHANGED <<clock, req, pre, fund0, answer>>

\* The INSERT or the COMMIT fails (a constraint, the disk); an INSERT that
\* has yet to open the write transaction can also run into the busy timeout.
CommitError(p, kind) ==
    /\ pc[p] = "commit"
    /\ kind = "locked" => writer # p
    /\ StorageError(p, kind)

\* The caller has taken the result; the process is free for its next call.
Reset(p) ==
    /\ pc[p] = "done"
    /\ pc' = [pc EXCEPT ![p] = "idle"]
    /\ req' = [req EXCEPT ![p] = NoRequest]
    /\ sess' = [sess EXCEPT ![p] = SessionLocal]
    /\ ret' = [ret EXCEPT ![p] = "none"]
    /\ why' = [why EXCEPT ![p] = "none"]
    /\ pre' = [pre EXCEPT ![p] = NoSnapshot]
    /\ UNCHANGED <<fund, movements, writer, clock, fund0, nsucc, prior, answer>>

\* The process is killed between flush and commit: the store rolls the
\* open write transaction back, and the restarted process is idle.
Abort(p) ==
    /\ pc[p] \in {"add", "commit"}
    /\ writer' = IF writer = p THEN NoWriter ELSE writer
    /\ pc' = [pc EXCEPT ![p] = "idle"]
    /\ req' = [req EXCEPT ![p] = NoRequest]
    /\ sess' = [sess EXCEPT ![p] = SessionLocal]
    /\ ret' = [ret EXCEPT ![p] = "none"]
    /\ why' = [why EXCEPT ![p] = "none"]
    /\ pre' = [pre EXCEPT ![p] = NoSnapshot]
    /\ UNCHANGED <<fund, movements, clock, fund0, nsucc, prior, answer>>

----------------------------------------------------------------------------
(* Calls made before init_database(): the module-level get_session raises  *)
(* RuntimeError before any session exists, and the caller's                *)
(* `except Exception` turns it into False.                                 *)

NotInitialised(p, r) ==
    /\ pc[p] = "idle"
    /\ req' = [req EXCEPT ![p] = r]
    /\ pre' = [pre EXCEPT ![p] = [fund |-> fund, nmov |-> Len(movements)]]
    /\ Return(p, "False", "not_initialised",
              [SessionLocal EXCEPT !.raised = "RuntimeError"])
    /\ UNCHANGED <<fund, movements, writer, clock, fund0, nsucc, prior, answer>>

PerformOperationNotInitialised(p, i, type, q, t) ==
    NotInitialised(p, [fund_item_id |-> i, ticket_id |-> t, quantity |-> q,
                       fn |-> "perform_operation", operation_type |-> type,
                       correct_accounting |-> FALSE])

PerformInventoryNotInitialised(p, i, actual, correct) ==
    NotInitialised(p, [fund_item_id |-> i, ticket_id |-> None,
                       quantity |-> actual, fn |-> "perform_inventory",
                       operation_type |-> "INVENTORY",
                       correct_accounting |-> correct])

(* The queries.  Each is one SELECT in a session of its own, which is      *)
(* committed with nothing to write and closed; under the write-ahead log   *)
(* the SELECT reads the last committed state and waits for no writer.      *)

\* A variant of GetFundItems that stamps the rows it has read.
GetFundItemsTouches(p, company, type, show_discrepancies_only) ==
    /\ pc[p] = "idle"
    /\ answer' = [fn |-> "get_fund_items",
                  items |-> get_fund_items(company, type,
                                           show_discrepancies_only),
                  rows |-> <<>>, error |-> "none"]
    /\ fund' = [i \in FundItemIds |->
                   IF company_id(i) = company
                   THEN [fund[i] EXCEPT !.updated_at = clock] ELSE fund[i]]
    /\ UNCHANGED <<movements, writer, clock, pc, req, sess, ret, why,
                   pre, fund0, nsucc, prior>>

GetFundItems(p, company, type, show_discrepancies_only) ==
    /\ pc[p] = "idle"
    /\ answer' = [fn |-> "get_fund_items",
                  items |-> get_fund_items(company, type,
                                           show_discrepancies_only),
                  rows |-> <<>>, error |-> "none"]
    /\ UNCHANGED <<fund, movements, writer, clock, pc, req, sess, ret, why,
                   pre, fund0, nsucc, prior>>

GetMovements(p, fund_item_id, movement_type, limit) ==
    /\ pc[p] = "idle"
    /\ \E rows \in get_movements(fund_item_id, movement_type, limit) :
          answer' = [fn |-> "get_movements", items |-> {}, rows |-> rows,
                     error |-> "none"]
    /\ UNCHANGED <<fund, movements, writer, clock, pc, req, sess, ret, why,
                   pre, fund0, nsucc, prior>>

\* The query raises inside its try block (the database is not initialised,
\* or the SELECT fails): `except Exception` returns the empty list.
QueryError(p, fn, kind) ==
    /\ pc[p] = "idle"
    /\ answer' = [fn |-> fn, items |-> {}, rows |-> <<>>, error |-> kind]
    /\ UNCHANGED <<fund, movements, writer, clock, pc, req, sess, ret, why,
                   pre, fund0, nsucc, prior>>

----------------------------------------------------------------------------

(* Specifications. *)

Step(p) ==
    \/ Flush(p)
    \/ FlushError(p)
    \/ AddMovement(p)
    \/ Commit(p)
    \/ \E kind \in {"locked", "storage"} : CommitError(p, kind)
    \/ Abort(p)
    \/ Reset(p)

\* One caller with the arguments section 4 allows: each call runs to its
\* end before the next begins.
NextSeq ==
    \/ \E type \in OperationTypes, q \in PositiveQuantities :
            PerformOperation("bot", 1, type, q, TicketOf(type))
    \/ PerformOperation("bot", MissingId, "ISSUE", 1, TicketOf("ISSUE"))
    \/ \E actual \in CountedQuantities, correct \in BOOLEAN :
            PerformInventory("bot", 1, actual, correct)
    \/ Step("bot")

SpecSeq == Init /\ [][NextSeq]_vars

\* The same caller and arguments, with every call inside one reading of the
\* clock.
SpecStock == InitSameInstant /\ [][NextSeq]_vars

\* One caller while the other process has taken the write transaction and
\* never ends it: the web panel's call stops after its flush.  The caller
\* is not killed; its every statement ends, with a result or the busy
\* timeout.
NextLocked ==
    \/ PerformOperation("web", 1, "RECEIVE", 1, None)
    \/ Flush("web")
    \/ \E type \in OperationTypes :
            PerformOperation("bot", 1, type, 1, TicketOf(type))
    \/ \E correct \in BOOLEAN : PerformInventory("bot", 1, 0, correct)
    \/ Flush("bot")
    \/ FlushError("bot")
    \/ AddMovement("bot")
    \/ Commit("bot")
    \/ \E kind \in {"locked", "storage"} : CommitError("bot", kind)
    \/ Reset("bot")

Running(p) ==
    \/ Flush(p)
    \/ FlushError(p)
    \/ AddMovement(p)
    \/ Commit(p)
    \/ \E kind \in {"locked", "storage"} : CommitError(p, kind)

SpecLocked ==
    InitSameInstant /\ [][NextLocked]_vars /\ WF_vars(Running("bot"))

\* One caller with arguments section 4 rules out: a quantity that is not
\* positive, a negative count, an id no row has, a type that is no operation.
NextArgs ==
    \/ \E type \in OperationTypes, q \in NonPositiveQuantities :
            PerformOperation("bot", 1, type, q, None)
    \/ \E correct \in BOOLEAN : PerformInventory("bot", 1, 0 - 1, correct)
    \/ PerformOperation("bot", MissingId, "RECEIVE", 1, None)
    \/ PerformInventory("bot", MissingId, 1, TRUE)
    \/ \E type \in {"INVENTORY", "issue"} :
            PerformOperation("bot", 1, type, 1, None)
    \/ Step("bot")

SpecArgs == Init /\ [][NextArgs]_vars

\* The bot and the web panel, calling concurrently on one fund item.
Next ==
    \/ \E p \in Procs, type \in OperationTypes :
            PerformOperation(p, 1, type, 1, None)
    \/ \E p \in Procs, correct \in BOOLEAN : PerformInventory(p, 1, 0, correct)
    \/ \E p \in Procs : Step(p)

Spec == InitSameInstant /\ [][Next]_vars

----------------------------------------------------------------------------
\* The bot writes to both fund items while the web panel reads; either may
\* be asked before its process has initialised the database.
NextQuery ==
    \/ \E i \in FundItemIds : PerformOperation("bot", i, "RECEIVE", 1, None)
    \/ PerformInventory("bot", 1, 0, TRUE)
    \/ PerformOperation("bot", 1, "RETURN", 1, TicketOf("RETURN"))
    \/ PerformOperation("bot", MissingId, "RECEIVE", 1, None)
    \/ Step("bot")
    \/ PerformOperationNotInitialised("bot", 1, "RECEIVE", 1, None)
    \/ PerformInventoryNotInitialised("bot", 1, 0, TRUE)
    \/ \E only \in BOOLEAN : GetFundItems("web", None, "", only)
    \/ \E i \in {0, 1}, type \in {"", "RECEIVE"} :
            GetMovements("web", i, type, 1)
    \/ QueryError("web", "get_fund_items", "storage")
    \/ QueryError("web", "get_movements", "not_initialised")

\* Fund item 1 starts with one unit on the shelf and none handed out.
InitQuery == Init /\ fund0[1] = [a |-> 1, r |-> 0]

SpecQuery == InitQuery /\ [][NextQuery]_vars

----------------------------------------------------------------------------

\* The bot and the web panel, calling concurrently on one fund item while
\* the clock moves; among the calls are ones that change no column of the
\* row (a zero quantity, a count that was already recorded), for which
\* session.flush() sends no UPDATE.
NextOrder ==
    \/ \E p \in Procs, q \in {0, 1} : PerformOperation(p, 1, "RECEIVE", q, None)
    \/ \E p \in Procs : PerformInventory(p, 1, 0, FALSE)
    \/ \E p \in Procs : Step(p)

SpecOrder == InitQuery /\ [][NextOrder]_vars

----------------------------------------------------------------------------

(* What the properties below speak of. *)

Counters(row) == [a |-> row.quantity_available, r |-> row.quantity_reserved]

\* The call of p is under way or has just returned.
Calling(p) == pc[p] # "idle"
Returned(p) == pc[p] = "done"

\* The row the call of p found, and the one the store holds now.
RowBefore(p) == pre[p].fund[req[p].fund_item_id]
RowNow(p) == fund[req[p].fund_item_id]

\* The call of p has left the store as it found it.
NoSideEffect(p) == fund = pre[p].fund /\ Len(movements) = pre[p].nmov

\* The storage failed under the call of p.
StorageFailed(p) == why[p] \in {"locked", "storage"}

\* A counter operation that, applied to the row it found, would leave a
\* counter below zero.
WouldGoNegative(p) ==
    /\ req[p].fn = "perform_operation"
    /\ req[p].fund_item_id \in FundItemIds
    /\ \/ /\ req[p].operation_type \in {"ISSUE", "WRITE_OFF"}
          /\ RowBefore(p).quantity_available - req[p].quantity < 0
       \/ /\ req[p].operation_type = "RETURN"
          /\ RowBefore(p).quantity_reserved - req[p].quantity < 0

----------------------------------------------------------------------------
(* C1. One caller, positive quantities, any order of ISSUE, RETURN,        *)
(* WRITE_OFF and RECEIVE (and counts that are not negative): both counters *)
(* of every fund item are >= 0 in every committed state, and a call that   *)
(* would take a counter below zero never reaches the store: it returns     *)
(* False and leaves the rows and the log as they were.                     *)

C1_NonNegative ==
    /\ \A i \in FundItemIds :
          fund[i].quantity_available >= 0 /\ fund[i].quantity_reserved >= 0
    /\ \A p \in Procs :
          Calling(p) /\ WouldGoNegative(p) =>
              Returned(p) /\ ret[p] = "False" /\ NoSideEffect(p)

\* A rejected overdraw after an operation that was committed.
C1_Witness ==
    /\ Returned("bot") /\ WouldGoNegative("bot") /\ ret["bot"] = "False"
    /\ Len(movements) >= 1

----------------------------------------------------------------------------
(* C2. The bot and the web panel both call ISSUE for the whole stock of    *)
(* one item, each having found the same committed store, and neither meets *)
(* a storage failure: exactly one of the two calls returns True.           *)

IssuedWholeStock(p) ==
    /\ req[p].fn = "perform_operation"
    /\ req[p].operation_type = "ISSUE"
    /\ req[p].fund_item_id \in FundItemIds
    /\ req[p].quantity > 0
    /\ req[p].quantity = RowBefore(p).quantity_available

RacedForStock(p, q) ==
    /\ p # q
    /\ Returned(p) /\ Returned(q)
    /\ IssuedWholeStock(p) /\ IssuedWholeStock(q)
    /\ req[p].fund_item_id = req[q].fund_item_id
    /\ pre[p] = pre[q]
    /\ ~StorageFailed(p) /\ ~StorageFailed(q)

C2_ExactlyOneIssueSucceeds ==
    \A p, q \in Procs :
        RacedForStock(p, q) => (ret[p] = "True") # (ret[q] = "True")

----------------------------------------------------------------------------
(* C3. Every step of every process either leaves the committed store (the  *)
(* fund rows and the movement log) as it was and makes no call succeed, or *)
(* is the commit of one call that returns True: it appends that call's one *)
(* movement row for the targeted item and, in the same step, writes the    *)
(* call's field changes to that item and to no other.  A failing INSERT or *)
(* COMMIT and a process killed between flush and commit are steps of the   *)
(* first kind.                                                             *)

StoreUntouched ==
    /\ fund' = fund
    /\ movements' = movements
    /\ \A p \in Procs : ret'[p] = "True" => ret[p] = "True"

CommitsTogether(p) ==
    LET i == req[p].fund_item_id
        n == Len(movements)
    IN /\ pc[p] = "commit" /\ pc'[p] = "done" /\ ret'[p] = "True"
       /\ Len(movements') = n + 1
       /\ SubSeq(movements', 1, n) = movements
       /\ movements'[n + 1] = Get(sess[p].movement)
       /\ movements'[n + 1].fund_item_id = i
       /\ \A c \in Columns :
             fund'[i][c] = IF Get(sess[p].item)[c] # Get(sess[p].loaded)[c]
                           THEN Get(sess[p].item)[c] ELSE fund[i][c]
       /\ \A j \in FundItemIds \ {i} : fund'[j] = fund[j]
       /\ \A q \in Procs \ {p} : ret'[q] = ret[q]

C3_AllOrNothing ==
    [][StoreUntouched \/ \E p \in Procs : CommitsTogether(p)]_vars

\* The INSERT or the COMMIT of a call failed after its flush, beside a
\* call that was committed.
C3_Witness ==
    \E p \in Procs :
        /\ Returned(p) /\ why[p] = "storage" /\ ret[p] = "False"
        /\ sess[p].rolled_back
        /\ Len(movements) >= 1

----------------------------------------------------------------------------
(* Replaying the log. *)

\* Movement m comes before movement k in (created_at, id) order.
Precedes(m, k) ==
    \/ movements[m].created_at < movements[k].created_at
    \/ movements[m].created_at = movements[k].created_at /\ m < k

\* The ids of the movements of item i, in (created_at, id) order.
IdsOf(i) == {k \in 1..Len(movements) : movements[k].fund_item_id = i}

InReplayOrder(i) ==
    LET ids == IdsOf(i)
        rank(k) == Cardinality({m \in ids : Precedes(m, k)}) + 1
    IN [j \in 1..Cardinality(ids) |->
            movements[CHOOSE k \in ids : rank(k) = j]]

\* ISSUE, RETURN, WRITE_OFF and RECEIVE are deltas of quantity; INVENTORY
\* sets available to quantity_after.
ApplyMovement(c, m) ==
    CASE m.movement_type = "ISSUE" ->
           [a |-> c.a - m.quantity, r |-> c.r + m.quantity]
      [] m.movement_type = "RETURN" ->
           [a |-> c.a + m.quantity, r |-> c.r - m.quantity]
      [] m.movement_type = "WRITE_OFF" ->
           [a |-> c.a - m.quantity, r |-> c.r]
      [] m.movement_type = "RECEIVE" ->
           [a |-> c.a + m.quantity, r |-> c.r]
      [] m.movement_type = "INVENTORY" ->
           [a |-> Get(m.quantity_after), r |-> c.r]

RECURSIVE Replay(_, _)
Replay(c, ms) ==
    IF ms = <<>> THEN c ELSE Replay(ApplyMovement(c, Head(ms)), Tail(ms))

----------------------------------------------------------------------------
(* C4. One caller: for every fund item, the movement rows of the item are  *)
(* as many as the calls on it that returned True, and replaying them in    *)
(* (created_at, id) order from the item's initial counters gives the       *)
(* item's current quantity_available and quantity_reserved.                *)

C4_LogReplaysToCounters ==
    \A i \in FundItemIds :
        /\ Cardinality(IdsOf(i)) = nsucc[i]
        /\ Replay(fund0[i], InReplayOrder(i)) = Counters(fund[i])

\* Two committed calls, one of them an inventory that left the book
\* quantity alone while the count differed from it.
C4_Witness ==
    /\ nsucc[1] >= 2
    /\ \E k \in IdsOf(1) :
          /\ movements[k].movement_type = "INVENTORY"
          /\ movements[k].quantity # Get(movements[k].quantity_after)
    /\ \E k \in IdsOf(1) : movements[k].movement_type # "INVENTORY"

----------------------------------------------------------------------------
(* C5. Two concurrent callers: in every committed state the counters of    *)
(* every fund item are what replaying its committed movements from the     *)
(* initial counters gives.                                                 *)

C5_NoLostUpdate ==
    \A i \in FundItemIds :
        Counters(fund[i]) = Replay(fund0[i], InReplayOrder(i))

----------------------------------------------------------------------------
(* C6. A perform_operation call whose precondition fails (ISSUE or         *)
(* WRITE_OFF of more than quantity_available, RETURN of more than          *)
(* quantity_reserved) returns False on the precondition, opens no write    *)
(* transaction, leaves every field of the fund item as it was and writes   *)
(* no movement row.                                                        *)

PreconditionFails(p) ==
    /\ req[p].fn = "perform_operation"
    /\ req[p].fund_item_id \in FundItemIds
    /\ \/ /\ req[p].operation_type \in {"ISSUE", "WRITE_OFF"}
          /\ req[p].quantity > RowBefore(p).quantity_available
       \/ /\ req[p].operation_type = "RETURN"
          /\ req[p].quantity > RowBefore(p).quantity_reserved

C6_RejectBeforeMutate ==
    \A p \in Procs :
        Calling(p) /\ PreconditionFails(p) =>
            /\ Returned(p) /\ ret[p] = "False" /\ why[p] = "precondition"
            /\ writer = NoWriter
            /\ \A c \in Columns : RowNow(p)[c] = RowBefore(p)[c]
            /\ Len(movements) = pre[p].nmov

\* A WRITE_OFF of more than is available, rejected while the item has
\* enough in reserve.
C6_Witness ==
    /\ Returned("bot") /\ PreconditionFails("bot")
    /\ req["bot"].operation_type = "WRITE_OFF"
    /\ RowBefore("bot").quantity_reserved >= req["bot"].quantity
    /\ ret["bot"] = "False"

----------------------------------------------------------------------------
(* C7. A perform_operation call on an existing fund item with a quantity   *)
(* that is zero or negative returns False and has no side effect: the fund *)
(* rows and the movement log are as the call found them.                   *)

C7_NonPositiveQuantityRejected ==
    \A p \in Procs :
        /\ Returned(p)
        /\ req[p].fn = "perform_operation"
        /\ req[p].operation_type \in OperationTypes
        /\ req[p].fund_item_id \in FundItemIds
        /\ req[p].quantity <= 0
        => ret[p] = "False" /\ NoSideEffect(p)

----------------------------------------------------------------------------
(* C8. A perform_inventory call with a negative actual_quantity returns    *)
(* False and has no side effect, whatever correct_accounting is; the       *)
(* quantity_available of no fund item is negative.                         *)

C8_NegativeCountRejected ==
    /\ \A p \in Procs :
          /\ Returned(p)
          /\ req[p].fn = "perform_inventory"
          /\ req[p].fund_item_id \in FundItemIds
          /\ req[p].quantity < 0
          => ret[p] = "False" /\ NoSideEffect(p)
    /\ \A i \in FundItemIds :
          nsucc[i] = Cardinality({k \in IdsOf(i) :
                         movements[k].movement_type = "INVENTORY"}) =>
              fund[i].quantity_available >= 0

----------------------------------------------------------------------------
(* C9. A perform_operation(ISSUE, q) call with q > 0 that met no storage   *)
(* failure returns True exactly when the fund item exists and its          *)
(* quantity_available is at least q; a call that returned True has set     *)
(* quantity_available to its old value minus q, quantity_reserved to its   *)
(* old value plus q, and appended one ISSUE movement with quantity q, the  *)
(* ticket_id and the user_id of the call.                                  *)

IssueCall(p) ==
    /\ Returned(p)
    /\ req[p].fn = "perform_operation"
    /\ req[p].operation_type = "ISSUE"
    /\ req[p].quantity > 0

C9_Issue ==
    \A p \in Procs :
        IssueCall(p) =>
            /\ ~StorageFailed(p) =>
                  (ret[p] = "True" <=>
                      /\ req[p].fund_item_id \in FundItemIds
                      /\ RowBefore(p).quantity_available >= req[p].quantity)
            /\ ret[p] = "True" =>
                  /\ RowNow(p).quantity_available =
                        RowBefore(p).quantity_available - req[p].quantity
                  /\ RowNow(p).quantity_reserved =
                        RowBefore(p).quantity_reserved + req[p].quantity
                  /\ Len(movements) = pre[p].nmov + 1
                  /\ LET m == movements[Len(movements)]
                     IN /\ m.fund_item_id = req[p].fund_item_id
                        /\ m.movement_type = "ISSUE"
                        /\ m.quantity = req[p].quantity
                        /\ m.ticket_id = req[p].ticket_id
                        /\ m.user_id = UserId

\* An ISSUE of more than one unit for ticket 55 that succeeded with stock
\* left in the row.
C9_Witness ==
    /\ IssueCall("bot") /\ ret["bot"] = "True"
    /\ req["bot"].quantity = 2
    /\ req["bot"].ticket_id = Some(55)
    /\ RowBefore("bot").quantity_reserved >= 1

----------------------------------------------------------------------------
(* C10. One caller: when ISSUE(q) and then RETURN(q) on the same item are  *)
(* consecutive in the log, the item's counters after the RETURN are those  *)
(* before the ISSUE; a RETURN(q) called next after a committed ISSUE(q)    *)
(* on the item returns True unless the storage fails; and a RETURN(q) that *)
(* met no storage failure returns True exactly when quantity_reserved is   *)
(* at least q, moving q from reserved to available.                        *)

IssueThenReturn(n) ==
    /\ n >= 2
    /\ movements[n - 1].movement_type = "ISSUE"
    /\ movements[n].movement_type = "RETURN"
    /\ movements[n - 1].fund_item_id = movements[n].fund_item_id
    /\ movements[n - 1].quantity = movements[n].quantity

\* The counters of the item of movement n once it was committed.
CountersAfter(n) ==
    LET i == movements[n].fund_item_id
        later == {k \in IdsOf(i) : k > n}
    IN IF later = {} THEN Counters(fund[i])
       ELSE prior[CHOOSE k \in later : \A m \in later : k <= m]

ReturnCall(p) ==
    /\ Returned(p)
    /\ req[p].fn = "perform_operation"
    /\ req[p].operation_type = "RETURN"
    /\ req[p].fund_item_id \in FundItemIds
    /\ req[p].quantity > 0

C10_IssueReturnRoundTrip ==
    /\ \A n \in 1..Len(movements) :
          IssueThenReturn(n) => CountersAfter(n) = prior[n - 1]
    /\ \A p \in Procs :
          ReturnCall(p) /\ ~StorageFailed(p) =>
              /\ ret[p] = "True" <=>
                    RowBefore(p).quantity_reserved >= req[p].quantity
              /\ ret[p] = "True" =>
                    /\ RowNow(p).quantity_available =
                          RowBefore(p).quantity_available + req[p].quantity
                    /\ RowNow(p).quantity_reserved =
                          RowBefore(p).quantity_reserved - req[p].quantity
              /\ /\ pre[p].nmov >= 1
                 /\ movements[pre[p].nmov].movement_type = "ISSUE"
                 /\ movements[pre[p].nmov].fund_item_id = req[p].fund_item_id
                 /\ movements[pre[p].nmov].quantity = req[p].quantity
                 => ret[p] = "True"

\* ISSUE(q) and RETURN(q) committed one after the other, from a row that
\* had stock in reserve, the RETURN just returned.
C10_Witness ==
    /\ Len(movements) >= 2
    /\ IssueThenReturn(Len(movements))
    /\ prior[Len(movements) - 1].r >= 1
    /\ ReturnCall("bot") /\ ret["bot"] = "True"

----------------------------------------------------------------------------
(* C11. A perform_operation(WRITE_OFF, q) call that returned True found    *)
(* quantity_available >= q, has set quantity_available to its old value    *)
(* minus q and has left quantity_reserved as it was.                       *)

WriteOffCall(p) ==
    /\ Returned(p)
    /\ req[p].fn = "perform_operation"
    /\ req[p].operation_type = "WRITE_OFF"
    /\ req[p].fund_item_id \in FundItemIds

C11_WriteOff ==
    \A p \in Procs :
        WriteOffCall(p) /\ ret[p] = "True" =>
            /\ RowBefore(p).quantity_available >= req[p].quantity
            /\ RowNow(p).quantity_available =
                  RowBefore(p).quantity_available - req[p].quantity
            /\ RowNow(p).quantity_reserved = RowBefore(p).quantity_reserved

\* A WRITE_OFF that succeeded on a row holding stock in reserve.
C11_Witness ==
    /\ WriteOffCall("bot") /\ ret["bot"] = "True"
    /\ RowBefore("bot").quantity_reserved >= 1

----------------------------------------------------------------------------
(* C12. A perform_operation(RECEIVE, q) call with q > 0 on an existing     *)
(* fund item that met no storage failure returns True, whatever the row    *)
(* holds; a call that returned True has set quantity_available to its old  *)
(* value plus q and has left quantity_reserved as it was.                  *)

ReceiveCall(p) ==
    /\ Returned(p)
    /\ req[p].fn = "perform_operation"
    /\ req[p].operation_type = "RECEIVE"
    /\ req[p].fund_item_id \in FundItemIds
    /\ req[p].quantity > 0

C12_Receive ==
    \A p \in Procs :
        ReceiveCall(p) =>
            /\ ~StorageFailed(p) => ret[p] = "True"
            /\ ret[p] = "True" =>
                  /\ RowNow(p).quantity_available =
                        RowBefore(p).quantity_available + req[p].quantity
                  /\ RowNow(p).quantity_reserved =
                        RowBefore(p).quantity_reserved

\* A RECEIVE of more than the row held, which succeeded.
C12_Witness ==
    /\ ReceiveCall("bot") /\ ret["bot"] = "True"
    /\ RowBefore("bot").quantity_available < req["bot"].quantity
    /\ RowBefore("bot").quantity_reserved >= 1

----------------------------------------------------------------------------
(* What get_fund_items reports of one item. *)

InventoryCall(p) ==
    /\ Returned(p)
    /\ req[p].fn = "perform_inventory"
    /\ req[p].fund_item_id \in FundItemIds
    /\ req[p].quantity >= 0

\* The dicts get_fund_items returns for item i, asked for the item's own
\* scope and any item type.
Reported(i, show_discrepancies_only) ==
    {d \in get_fund_items(company_id(i), "", show_discrepancies_only) : d.id = i}

----------------------------------------------------------------------------
(* C13. A perform_inventory call with actual >= 0 and correct_accounting   *)
(* false that met no storage failure returns True; once it has returned    *)
(* True, quantity_actual is the count, quantity_available and              *)
(* quantity_reserved are as the call found them, and get_fund_items        *)
(* reports the item once, with discrepancy = actual - quantity_available.  *)

C13_InventoryWithoutCorrection ==
    \A p \in Procs :
        InventoryCall(p) /\ ~req[p].correct_accounting =>
            /\ ~StorageFailed(p) => ret[p] = "True"
            /\ ret[p] = "True" =>
                  /\ RowNow(p).quantity_actual = Some(req[p].quantity)
                  /\ RowNow(p).quantity_available =
                        RowBefore(p).quantity_available
                  /\ RowNow(p).quantity_reserved =
                        RowBefore(p).quantity_reserved
                  /\ Cardinality(Reported(req[p].fund_item_id, FALSE)) = 1
                  /\ \A d \in Reported(req[p].fund_item_id, FALSE) :
                        /\ d.quantity_actual = Some(req[p].quantity)
                        /\ d.discrepancy =
                              Some(req[p].quantity
                                   - RowBefore(p).quantity_available)

\* A count of 2 recorded against a book quantity of 1, after an earlier
\* committed call.
C13_Witness ==
    /\ InventoryCall("bot") /\ ~req["bot"].correct_accounting
    /\ ret["bot"] = "True"
    /\ req["bot"].quantity = 2
    /\ RowBefore("bot").quantity_available = 1
    /\ pre["bot"].nmov >= 1

----------------------------------------------------------------------------
(* C14. A perform_inventory call with actual >= 0 and correct_accounting   *)
(* true that has returned True has set quantity_actual and                 *)
(* quantity_available to the count; get_fund_items then reports            *)
(* discrepancy 0 for the item and leaves it out of the discrepancies-only  *)
(* view, and it stays out while the correcting inventory is the item's     *)
(* latest movement.                                                        *)

\* The latest movement of item i is an inventory that corrected the book.
CorrectedLast(i) ==
    /\ IdsOf(i) # {}
    /\ LET k == CHOOSE m \in IdsOf(i) : \A n \in IdsOf(i) : n <= m
       IN /\ movements[k].movement_type = "INVENTORY"
          /\ movements[k].quantity_after = Some(movements[k].quantity)

C14_InventoryWithCorrection ==
    /\ \A p \in Procs :
          InventoryCall(p) /\ req[p].correct_accounting /\ ret[p] = "True" =>
              /\ RowNow(p).quantity_actual = Some(req[p].quantity)
              /\ RowNow(p).quantity_available = req[p].quantity
              /\ RowNow(p).quantity_reserved = RowBefore(p).quantity_reserved
              /\ \A d \in Reported(req[p].fund_item_id, FALSE) :
                    d.discrepancy = Some(0)
              /\ Reported(req[p].fund_item_id, TRUE) = {}
    /\ \A i \in FundItemIds :
          CorrectedLast(i) =>
              /\ Reported(i, TRUE) = {}
              /\ \A d \in Reported(i, FALSE) : d.discrepancy = Some(0)

\* A correcting inventory on an item that an earlier inventory had left
\* with a discrepancy.
C14_Witness ==
    /\ InventoryCall("bot") /\ req["bot"].correct_accounting
    /\ ret["bot"] = "True"
    /\ ~IsNone(RowBefore("bot").quantity_actual)
    /\ Get(RowBefore("bot").quantity_actual) # RowBefore("bot").quantity_available
    /\ req["bot"].quantity # RowBefore("bot").quantity_available

----------------------------------------------------------------------------
(* C15. Every committed movement of type INVENTORY has the count as        *)
(* quantity, the quantity_available the item had when it was reconciled as *)
(* quantity_before, and as quantity_after the count or quantity_before;    *)
(* the movement of a perform_inventory call that returned True has the     *)
(* count as quantity_after when correct_accounting was true and            *)
(* quantity_before otherwise.  Every committed movement of type ISSUE,     *)
(* RETURN, WRITE_OFF or RECEIVE has null quantity_before and               *)
(* quantity_after.                                                         *)

C15_MovementFields ==
    /\ \A k \in 1..Len(movements) :
          IF movements[k].movement_type = "INVENTORY"
          THEN /\ movements[k].quantity_before = Some(prior[k].a)
               /\ movements[k].quantity_after \in
                     {Some(movements[k].quantity), movements[k].quantity_before}
          ELSE /\ movements[k].movement_type \in OperationTypes
               /\ movements[k].quantity_before = None
               /\ movements[k].quantity_after = None
    /\ \A p \in Procs :
          InventoryCall(p) /\ ret[p] = "True" =>
              LET m == movements[Len(movements)]
              IN /\ Len(movements) = pre[p].nmov + 1
                 /\ m.movement_type = "INVENTORY"
                 /\ m.fund_item_id = req[p].fund_item_id
                 /\ m.quantity = req[p].quantity
                 /\ m.quantity_before = Some(RowBefore(p).quantity_available)
                 /\ m.quantity_after =
                       IF req[p].correct_accounting THEN Some(req[p].quantity)
                       ELSE m.quantity_before

\* The log holds an operation and, after it, an inventory that left a book
\* quantity alone that differed from the count.
C15_Witness ==
    /\ Len(movements) >= 2
    /\ movements[1].movement_type \in OperationTypes
    /\ movements[2].movement_type = "INVENTORY"
    /\ movements[2].quantity_after # Some(movements[2].quantity)
    /\ InventoryCall("bot") /\ ret["bot"] = "True"

----------------------------------------------------------------------------
(* C16. For every scope and item type, get_fund_items with                 *)
(* show_discrepancies_only returns exactly the dicts of the items of that  *)
(* scope and type whose quantity_actual is set and differs from            *)
(* quantity_available, each with discrepancy = quantity_actual -           *)
(* quantity_available; an item never counted is left out, and an item      *)
(* whose inventory without correction recorded a count other than the book *)
(* quantity is in.                                                         *)

Scopes == {None, Some(1)}
ItemTypeFilters == {"", "CARTRIDGE", "PRINTER"}

C16_DiscrepanciesOnly ==
    /\ \A company \in Scopes, type \in ItemTypeFilters :
          LET view == get_fund_items(company, type, TRUE)
          IN /\ {d.id : d \in view} =
                   {i \in FundItemIds :
                       /\ company_id(i) = company
                       /\ type = "" \/ item_type(i) = type
                       /\ fund[i].quantity_actual # None
                       /\ fund[i].quantity_actual # Some(fund[i].quantity_available)}
             /\ \A d \in view :
                   /\ d.quantity_available = fund[d.id].quantity_available
                   /\ d.quantity_actual = fund[d.id].quantity_actual
                   /\ d.discrepancy = Some(Get(fund[d.id].quantity_actual)
                                           - fund[d.id].quantity_available)
    /\ \A i \in FundItemIds :
          fund[i].quantity_actual = None => Reported(i, TRUE) = {}
    /\ \A p \in Procs :
          /\ InventoryCall(p) /\ ~req[p].correct_accounting /\ ret[p] = "True"
          /\ req[p].quantity # RowBefore(p).quantity_available
          => \E d \in Reported(req[p].fund_item_id, TRUE) :
                d.discrepancy =
                    Some(req[p].quantity - RowBefore(p).quantity_available)

\* An item that was left out while never counted is reported with
\* discrepancy -2 once an inventory without correction has counted two
\* fewer than the book holds.
C16_Witness ==
    /\ InventoryCall("bot") /\ ~req["bot"].correct_accounting
    /\ ret["bot"] = "True"
    /\ RowBefore("bot").quantity_actual = None
    /\ \E d \in get_fund_items(None, "CARTRIDGE", TRUE) :
          d.id = 1 /\ d.discrepancy = Some(0 - 2)

----------------------------------------------------------------------------
(* C17. A call that ran into a locked/busy store returns failure only      *)
(* after the attempts of get_session are used up: when it returns False    *)
(* on a lock, max_retries attempts have been made and the error is the     *)
(* store's own.                                                            *)

C17_FailureOnlyAfterRetries ==
    \A p \in Procs :
        Returned(p) /\ why[p] = "locked" =>
            /\ sess[p].retries >= max_retries
            /\ sess[p].raised = "OperationalError"

----------------------------------------------------------------------------
(* C18. While the other process holds the write transaction for ever, a    *)
(* call that is under way ends: it returns False, having counted at most   *)
(* max_retries attempts, with the fund rows and the movement log as it     *)
(* found them.  Every call under way returns, and one that returned True   *)
(* has its movement and its field changes in the store.                    *)

InCall(p) == pc[p] \in {"flush", "add", "commit"}

LockedOut(p) == writer \in Procs \ {p}

GaveUp(p) ==
    /\ Returned(p) /\ ret[p] = "False"
    /\ sess[p].retries <= max_retries
    /\ NoSideEffect(p)

Kept(p) ==
    /\ Len(movements) = pre[p].nmov + 1
    /\ movements[Len(movements)].fund_item_id = req[p].fund_item_id
    /\ movements[Len(movements)].movement_type = req[p].operation_type
    /\ movements[Len(movements)].quantity = req[p].quantity
    /\ RowNow(p).updated_at >= RowBefore(p).updated_at

C18_EndsUnderLock ==
    /\ [](\A p \in Procs : Returned(p) /\ StorageFailed(p) => GaveUp(p))
    /\ [](\A p \in Procs : Returned(p) /\ ret[p] = "True" => Kept(p))
    /\ (InCall("bot") /\ LockedOut("bot")) ~> GaveUp("bot")
    /\ InCall("bot") ~> Returned("bot")

\* The caller has given up on the busy timeout while the web panel holds
\* the write transaction.
C18_Witness ==
    /\ LockedOut("bot") /\ GaveUp("bot") /\ why["bot"] = "locked"
    /\ sess["bot"].retries >= 1

----------------------------------------------------------------------------
(* C19. A call that met a database error which is no lock (the INSERT of   *)
(* the movement or the COMMIT failing) returns False at once: the session  *)
(* is rolled back and closed, no retry is counted and no wait made, the    *)
(* error re-raised is the database's, the write transaction is released,   *)
(* and the fund rows and the movement log are as the call found them.      *)

C19_NonTransientSurfaced ==
    \A p \in Procs :
        Returned(p) /\ why[p] = "storage" =>
            /\ ret[p] = "False"
            /\ sess[p].rolled_back /\ sess[p].closed
            /\ sess[p].retries = 0 /\ sess[p].slept = 0
            /\ sess[p].raised = "DatabaseError"
            /\ writer # p
            /\ NoSideEffect(p)

\* A RECEIVE whose commit failed after an earlier call was committed.
C19_Witness ==
    /\ Returned("bot") /\ why["bot"] = "storage" /\ ret["bot"] = "False"
    /\ req["bot"].operation_type = "RECEIVE"
    /\ pre["bot"].nmov >= 1

----------------------------------------------------------------------------
(* C20. A perform_operation or perform_inventory call naming an id that no *)
(* fund item has, and a perform_operation call whose operation type is     *)
(* none of ISSUE, RETURN, WRITE_OFF, RECEIVE, returns False before any     *)
(* mutation: nothing is flushed, no write transaction is opened, no field  *)
(* of any fund item changes and no movement row is written.                *)

NoSuchItem(p) == req[p].fund_item_id \notin FundItemIds

UnknownType(p) ==
    /\ req[p].fn = "perform_operation"
    /\ req[p].operation_type \notin OperationTypes

C20_UnknownTargetRejected ==
    \A p \in Procs :
        Calling(p) /\ (NoSuchItem(p) \/ UnknownType(p)) =>
            /\ Returned(p) /\ ret[p] = "False"
            /\ why[p] = IF NoSuchItem(p) THEN "not_found" ELSE "unknown_type"
            /\ IsNone(sess[p].loaded) /\ ~sess[p].rolled_back
            /\ writer = NoWriter
            /\ NoSideEffect(p)

\* perform_operation with the type INVENTORY, rejected after an earlier
\* call was committed.
C20_Witness ==
    /\ Returned("bot") /\ UnknownType("bot") /\ ~NoSuchItem("bot")
    /\ req["bot"].operation_type = "INVENTORY"
    /\ ret["bot"] = "False"
    /\ pre["bot"].nmov >= 1

\* perform_inventory on an id no fund item has, rejected.
C20_WitnessNoSuchItem ==
    /\ Returned("bot") /\ NoSuchItem("bot")
    /\ req["bot"].fn = "perform_inventory"
    /\ ret["bot"] = "False"

----------------------------------------------------------------------------
\* C21: perform_operation and perform_inventory never let an exception out:
\* whatever went wrong (the row is missing, the check failed, the store was
\* locked or broke, the database was never initialised), the call ends with
\* True or False, and with False whenever something was raised inside it;
\* a query in which something was raised returns the empty list.
C21_NeverPropagates ==
    /\ \A p \in Procs :
          Returned(p) =>
            /\ ret[p] \in {"True", "False"}
            /\ sess[p].raised # "none" => ret[p] = "False"
            /\ why[p] # "ok" => ret[p] = "False"
    /\ answer.error # "none" => answer.items = {} /\ answer.rows = <<>>

C21_Witness ==
    /\ Returned("bot")
    /\ why["bot"] = "locked"
    /\ sess["bot"].raised = "RuntimeError"
    /\ ret["bot"] = "False"
    /\ answer.error = "not_initialised"
    /\ Len(movements) > 0

C21_WitnessNotInitialised ==
    /\ Returned("bot")
    /\ why["bot"] = "not_initialised"
    /\ ret["bot"] = "False"
    /\ answer.fn = "get_fund_items"
    /\ answer.error = "storage"

----------------------------------------------------------------------------
\* C22: the movement log is append-only.  No step removes or alters a
\* movement that was committed before it: the log after the step begins
\* with the log before it.  A reconciliation that corrects the book
\* quantity commits by adding one new INVENTORY movement at the end.
CorrectingCommit(p) ==
    /\ pc[p] = "commit"
    /\ pc'[p] = "done"
    /\ ret'[p] = "True"
    /\ req[p].fn = "perform_inventory"
    /\ req[p].correct_accounting

C22_LogAppendOnly ==
    [][/\ Len(movements') >= Len(movements)
       /\ SubSeq(movements', 1, Len(movements)) = movements
       /\ \A p \in Procs :
             CorrectingCommit(p) =>
               /\ Len(movements') = Len(movements) + 1
               /\ movements'[Len(movements')].movement_type = "INVENTORY"
               /\ movements'[Len(movements')].fund_item_id = req[p].fund_item_id
      ]_vars

\* Two reconciliations of the item are in the log, the second a correcting
\* one, and the first is still there as it was written.
C22_Witness ==
    /\ Len(movements) = 2
    /\ movements[1].movement_type = "INVENTORY"
    /\ movements[2].movement_type = "INVENTORY"
    /\ movements[1].fund_item_id = movements[2].fund_item_id
    /\ movements[2].quantity_after # movements[2].quantity_before

----------------------------------------------------------------------------
\* C23: for every fund item, the order of its committed movements by
\* (created_at, id) is the order in which they were committed: a movement
\* committed later (it stands later in the log and has the larger id) never
\* carries a smaller created_at than one committed earlier.
C23_LogOrderIsCommitOrder ==
    \A k, l \in 1..Len(movements) :
        (k < l /\ movements[k].fund_item_id = movements[l].fund_item_id)
            => movements[k].created_at <= movements[l].created_at

----------------------------------------------------------------------------
\* C24: get_movements returns the first `limit` rows of the log under the
\* given filters, newest first: every returned row is a row of the log that
\* matches each filter that was given, no row comes twice, there are
\* min(limit, number of matching rows) of them, created_at never increases
\* along the list, and every matching row left out is no newer than any
\* row returned.
MovementTypeFilters == {"", "INVENTORY"}

Matches(k, fund_item_id, movement_type) ==
    /\ fund_item_id \in FundItemIds => movements[k].fund_item_id = fund_item_id
    /\ movement_type \in OperationTypes \cup {"INVENTORY"}
          => movements[k].movement_type = movement_type

NewestFirst(rows, fund_item_id, movement_type, limit) ==
    LET matching == {k \in 1..Len(movements) :
                        Matches(k, fund_item_id, movement_type)}
        returned == {rows[n].id : n \in DOMAIN rows}
    IN /\ Len(rows) <= limit
       /\ \A n \in DOMAIN rows :
             /\ rows[n].id \in matching
             /\ rows[n] = movement_to_dict(rows[n].id, movements[rows[n].id])
       /\ Cardinality(returned) = Len(rows)
       /\ Len(rows) = limit \/ returned = matching
       /\ \A n, m \in DOMAIN rows :
             n < m => rows[n].created_at >= rows[m].created_at
       /\ \A k \in matching \ returned, n \in DOMAIN rows :
             movements[k].created_at <= rows[n].created_at

C24_MovementsNewestFirst ==
    \A i \in {0} \cup FundItemIds, type \in MovementTypeFilters,
       limit \in 0..MaxMovements :
        LET lists == get_movements(i, type, limit)
        IN /\ lists # {}
           /\ \A rows \in lists : NewestFirst(rows, i, type, limit)

\* The web panel asked for the newest movement and got it, while an older
\* movement that also matched was left out; the log holds movements of both
\* fund items.
C24_Witness ==
    /\ answer.fn = "get_movements"
    /\ Len(answer.rows) = 1
    /\ Len(movements) = 2
    /\ movements[1].fund_item_id # movements[2].fund_item_id
    /\ answer.rows \in get_movements(0, "", 1)
    /\ \E k \in 1..Len(movements) :
          movements[k].created_at < answer.rows[1].created_at

----------------------------------------------------------------------------
\* C25: the queries never change state.  A step in which get_fund_items or
\* get_movements delivers its list leaves every fund row and the log as
\* they were, takes no write transaction, and leaves every call that is
\* under way (its position, its session, its result) untouched, so the
\* writer's next statement meets the store it would have met without the
\* query.
C25_QueriesChangeNothing ==
    [][answer' # answer =>
          /\ fund' = fund
          /\ movements' = movements
          /\ writer' = writer
          /\ pc' = pc /\ req' = req /\ sess' = sess
          /\ ret' = ret /\ why' = why
      ]_vars

\* The web panel has read the fund items while the bot's call was between
\* its flush and its commit, holding the write transaction.
C25_Witness ==
    /\ answer.fn = "get_fund_items"
    /\ answer.error = "none"
    /\ writer = "bot"
    /\ pc["bot"] = "commit"
    /\ \E d \in answer.items :
          d.id = 1 /\ d.quantity_available = fund[1].quantity_available

----------------------------------------------------------------------------
\* C26: quantity_actual and last_inventory_date are written by
\* perform_inventory only.  A step changes either of them on a fund item
\* only when it is the commit of a perform_inventory call on that item; the
\* commit of a perform_operation call leaves both as they were on every
\* item; and once an item has been counted, quantity_actual is the count of
\* its last INVENTORY movement and get_fund_items reports
\* discrepancy = quantity_actual - quantity_available for it.
Commits(p) == pc[p] = "commit" /\ pc'[p] = "done" /\ ret'[p] = "True"

LastCountReported(i) ==
    LET counts == {k \in IdsOf(i) : movements[k].movement_type = "INVENTORY"}
    IN counts # {} =>
         LET last == CHOOSE k \in counts : \A n \in counts : n <= k
         IN /\ fund[i].quantity_actual = Some(movements[last].quantity)
            /\ \A d \in Reported(i, FALSE) :
                  d.discrepancy = Some(movements[last].quantity
                                         - fund[i].quantity_available)
            /\ Reported(i, FALSE) # {}

C26_CountWrittenByInventoryOnly ==
    [][\A i \in FundItemIds :
          /\ (\/ fund'[i].quantity_actual # fund[i].quantity_actual
              \/ fund'[i].last_inventory_date # fund[i].last_inventory_date)
                => \E p \in Procs :
                      /\ Commits(p)
                      /\ req[p].fn = "perform_inventory"
                      /\ req[p].fund_item_id = i
          /\ (\E p \in Procs : Commits(p) /\ req[p].fn = "perform_operation")
                => /\ fund'[i].quantity_actual = fund[i].quantity_actual
                   /\ fund'[i].last_inventory_date = fund[i].last_inventory_date
          /\ LastCountReported(i)'
      ]_vars

\* The item was counted, and a perform_operation call that had read the row
\* before the count was committed has committed after it: the count stands,
\* and the discrepancy reported is not zero.
C26_Witness ==
    /\ Len(movements) = 2
    /\ movements[1].movement_type = "INVENTORY"
    /\ movements[2].movement_type = "RECEIVE"
    /\ \E p \in Procs :
          /\ Returned(p) /\ ret[p] = "True"
          /\ req[p].fn = "perform_operation"
          /\ pre[p].nmov = 0
    /\ fund[1].quantity_actual = Some(0)
    /\ \E d \in Reported(1, FALSE) : d.discrepancy = Some(0 - 2)

----------------------------------------------------------------------------
\* C27: fund items are independent.  A step changes a field of fund item j,
\* or adds a movement with fund_item_id = j, only when it is the commit of
\* a call made on j; so a call on item i leaves every field of every other
\* item as it was and logs nothing for it.
MovementsAdded == {k \in 1..Len(movements') : k > Len(movements)}

C27_ItemsIndependent ==
    [][\A j \in FundItemIds :
          (\/ fund'[j] # fund[j]
           \/ \E k \in MovementsAdded : movements'[k].fund_item_id = j)
             => \E p \in Procs : Commits(p) /\ req[p].fund_item_id = j
      ]_vars

\* A call on item 1 and then a call on item 2 have committed: each item has
\* its own movement, and the call on item 2 left item 1 as it found it.
C27_Witness ==
    /\ Len(movements) = 2
    /\ movements[1].fund_item_id = 1
    /\ movements[2].fund_item_id = 2
    /\ Returned("bot") /\ ret["bot"] = "True"
    /\ req["bot"].fund_item_id = 2
    /\ fund[1] = pre["bot"].fund[1]
    /\ fund[1].quantity_available = fund0[1].a + 1
    /\ fund[2].quantity_available = fund0[2].a + 1

----------------------------------------------------------------------------
\* C28: under every interleaving of two processes calling perform_operation
\* with a positive quantity and perform_inventory with a non-negative count
\* on the same fund item, the committed quantity_available and
\* quantity_reserved are never negative, and the columns a call is about to
\* write are the values it computed from the row it read, which passed the
\* call's own check.
C28_NonNegativeUnderConcurrency ==
    /\ \A i \in FundItemIds :
          /\ fund[i].quantity_available >= 0
          /\ fund[i].quantity_reserved >= 0
    /\ \A p \in Procs :
          pc[p] \in {"flush", "add", "commit"} =>
            /\ Get(sess[p].item).quantity_available >= 0
            /\ Get(sess[p].item).quantity_reserved >= 0
            /\ Get(sess[p].loaded) = RowBefore(p)

\* Both processes read the last unit, both issued it, and both commits went
\* through: the counters are not negative.
C28_Witness ==
    /\ Len(movements) = 2
    /\ movements[1].movement_type = "ISSUE"
    /\ movements[2].movement_type = "ISSUE"
    /\ \A p \in Procs : Returned(p) /\ ret[p] = "True" /\ pre[p].nmov = 0
    /\ fund0[1].a = 1
    /\ fund[1].quantity_available = 0
    /\ fund[1].quantity_reserved >= 0

----------------------------------------------------------------------------
C29_WitnessEarlyReturn ==
    /\ Returned("bot")
    /\ why["bot"] = "precondition"
    /\ sess["bot"].closed /\ ~sess["bot"].rolled_back
    /\ Returned("web") /\ ret["web"] = "True" /\ sess["web"].closed

----------------------------------------------------------------------------
\* C30: stock conservation, one call at a time.  A call that returned True
\* has changed quantity_available + quantity_reserved of its fund item by 0
\* if it was an ISSUE or a RETURN, by -quantity if a WRITE_OFF, by +quantity
\* if a RECEIVE, and by actual - quantity_available (as the call found it)
\* if a perform_inventory with correct_accounting, which leaves
\* quantity_reserved as it was.
Stock(row) == row.quantity_available + row.quantity_reserved

StockChange(p) ==
    CASE req[p].fn = "perform_inventory" ->
           IF req[p].correct_accounting
           THEN req[p].quantity - RowBefore(p).quantity_available
           ELSE 0
      [] req[p].operation_type = "WRITE_OFF" -> 0 - req[p].quantity
      [] req[p].operation_type = "RECEIVE" -> req[p].quantity
      [] OTHER -> 0

C30_StockConservation ==
    \A p \in Procs :
        (Returned(p) /\ ret[p] = "True") =>
            /\ Stock(RowNow(p)) = Stock(RowBefore(p)) + StockChange(p)
            /\ req[p].fn = "perform_inventory" =>
                  RowNow(p).quantity_reserved = RowBefore(p).quantity_reserved

\* A correcting reconciliation found two units fewer on the shelf than in
\* the books while one unit was handed out: the stock fell by two and the
\* unit handed out is still counted as reserved.
C30_Witness ==
    /\ Returned("bot") /\ ret["bot"] = "True"
    /\ req["bot"].fn = "perform_inventory"
    /\ req["bot"].correct_accounting
    /\ RowBefore("bot").quantity_reserved = 1
    /\ Stock(RowNow("bot")) = Stock(RowBefore("bot")) - 2
    /\ Len(movements) = 2
    /\ movements[1].movement_type = "RECEIVE"

====
